---- MODULE Spec2Model ----
(***************************************************************************)
(* Panel-state reconciliation engine of amazondvc_admin:                   *)
(*   backend/services/scheduler_service.py  (poll loop)                    *)
(*   backend/services/proevent_service.py   (transition handler, window    *)
(*                                           reconciler, notifier check)   *)
(*   backend/services/proserver_service.py  (trigger store gateway)        *)
(* The modules cache_service and sqlite_config are imported by the code    *)
(* but are not part of the sources at hand; they are modelled as plain     *)
(* keyed stores, as the specification describes them.                      *)
(***************************************************************************)
EXTENDS Integers, Sequences, FiniteSets, TLC

\* ------------------------------------------------------------------ bounds
NumBuildings == 2
NumTriggers == 3
DayLen == 2
MaxScheduled == 1
MaxIgnored == 1
SubPerMinute == 2
MaxRows == 2
MaxTextLen == 3

\* ------------------------------------------------- constants of the program
\* pevReactive_FRK: 0 = REACTIVE, 1 = NON-REACTIVE
Reactive == 0
NonReactive == 1

Buildings == 1..NumBuildings
Triggers == 1..NumTriggers
Times == 0..(DayLen - 1)                    \* the HH:MM values of a day
Instants == 0..(DayLen * SubPerMinute - 1)  \* the readings of the clock
States == {Reactive, NonReactive}

\* ProEvent_TBL.pevBuilding_FRK: the owner of a trigger in the external store.
\* Building 1 owns every trigger but the last, building 2 owns the last one,
\* any further building owns none.
BuildingOf(t) == IF t = NumTriggers /\ NumTriggers > 1 THEN 2 ELSE 1

VARIABLES
    store,              \* ProEvent_TBL: trigger id -> pevReactive_FRK
    ignored,            \* ignored_proevents: trigger id -> ignore entry (partial)
    schedule,           \* building_times: building -> schedule (partial)
    snapshots,          \* device_state_snapshot: building -> list of {id, state} (partial)
    panel_state_cache,  \* cache value "panel_state_cache": building -> is_armed (partial)
    clock,              \* the wall clock
    pc,                 \* position of the scheduler thread inside scheduled_job
    op,                 \* the operation that made the last step
    handled,            \* what the transition handler did in this cycle, per building
    bulk_writes,        \* the calls of set_proevent_reactive_state_bulk of the last step
    alerts,             \* the calls of send_disarmed_axe_message of this cycle
    last_seen,          \* building -> the is_armed value the handler saw last (partial)
    next_run,           \* the time left until the job of run_scheduler is due
    minute_checked,     \* the notifier check has run in the minute the clock shows
    before_entry,       \* building -> the states its triggers had at window entry (partial)
    loop,               \* the for loop of the transition handler in flight: <<>> or <<frame>>
    manual,             \* the manual re-evaluation in flight: <<>> or <<frame>>
    sends,              \* what send_disarmed_axe_message did for each alert of this cycle
    panel_read,         \* the last read of the panel's arming rows: <<>> or <<read>>
    has_run             \* the job of run_scheduler has run and returned since start-up

vars == <<store, ignored, schedule, snapshots, panel_state_cache, clock,
          pc, op, handled, bulk_writes, alerts, last_seen,
          next_run, minute_checked, before_entry, loop, manual, sends, panel_read,
          has_run>>

\* ----------------------------------------------------------------- helpers
Range(s) == {s[i] : i \in DOMAIN s}

\* The elements of a finite set of integers in ascending order.
RECURSIVE SortedSeq(_)
SortedSeq(S) ==
    IF S = {} THEN <<>>
    ELSE LET m == CHOOSE x \in S : \A y \in S : x <= y
         IN <<m>> \o SortedSeq(S \ {m})

\* dict[key] = value on a partial function.
Put(f, k, v) == [x \in (DOMAIN f) \cup {k} |-> IF x = k THEN v ELSE f[x]]

\* del dict[key] on a partial function.
Drop(f, k) == [x \in (DOMAIN f) \ {k} |-> f[x]]

IgnoreEntries ==
    [building_frk : Buildings, ignore_on_arm : BOOLEAN, ignore_on_disarm : BOOLEAN]

\* A schedule row; end_time is <<>> when it is None.
ScheduleChoices ==
    { [start_time |-> 0, end_time |-> <<1>>],
      [start_time |-> 1, end_time |-> <<0>>],
      [start_time |-> 1, end_time |-> <<>>] }

\* ------------------------------------------------- trigger store gateway
\* get_proevents_for_building_from_db: the rows of the building, by id.
get_proevents_for_building_from_db(st, b) ==
    LET ids == SortedSeq({t \in Triggers : BuildingOf(t) = b})
    IN [i \in DOMAIN ids |-> [id |-> ids[i], state |-> st[ids[i]]]]

\* The UPDATE ... WHERE ProEvent_PRK = :proevent_id of every item, in order.
RECURSIVE ApplyUpdates(_, _)
ApplyUpdates(st, target_states) ==
    IF target_states = <<>> THEN st
    ELSE LET item == Head(target_states)
             st1 == IF item.id \in DOMAIN st
                    THEN [st EXCEPT ![item.id] = item.state]
                    ELSE st
         IN ApplyUpdates(st1, Tail(target_states))

\* Mutant: the updates sent before the failure stay in the store.
set_proevent_reactive_state_bulk_Partial(st, target_states, db_ok) ==
    IF target_states = <<>> THEN [store |-> st, success |-> TRUE, issued |-> FALSE]
    ELSE IF db_ok
         THEN [store |-> ApplyUpdates(st, target_states), success |-> TRUE, issued |-> TRUE]
         ELSE [store |-> ApplyUpdates(st, <<Head(target_states)>>),
               success |-> FALSE, issued |-> TRUE]

\* set_proevent_reactive_state_bulk: db_ok is whether execute and commit go
\* through; the session is closed without a commit otherwise.
set_proevent_reactive_state_bulk(st, target_states, db_ok) ==
    IF target_states = <<>> THEN [store |-> st, success |-> TRUE, issued |-> FALSE]
    ELSE IF db_ok
         THEN [store |-> ApplyUpdates(st, target_states), success |-> TRUE, issued |-> TRUE]
         ELSE [store |-> st, success |-> FALSE, issued |-> TRUE]

\* The record kept of one call that reached the database.
WriteRecord(b, target_states, res) ==
    [building |-> b, target_states |-> target_states, success |-> res.success]

\* ------------------------------------------------------ ignore registry
\* Mutant: the rows are selected by ignore_on_arm.
ignored_ids_OnArm(ign, b) ==
    {pid \in DOMAIN ign : ign[pid].building_frk = b /\ ign[pid].ignore_on_arm}

\* Mutant: the rows of every building are selected.
ignored_ids_AnyBuilding(ign, b) ==
    {pid \in DOMAIN ign : ign[pid].ignore_on_disarm}

\* Mutant: the rows are those of the registry as it was at start-up, when
\* it held none.
ignored_ids_AtStartup(ign, b) == {}

\* Mutant: the rows that name the building are selected whatever their
\* flags are.
ignored_ids_AnyFlag(ign, b) ==
    {pid \in DOMAIN ign : ign[pid].building_frk = b}

\* ignored_ids of manage_proevents_on_panel_state_change and of
\* take_snapshot_and_apply_schedule.
ignored_ids(ign, b) ==
    {pid \in DOMAIN ign : ign[pid].building_frk = b /\ ign[pid].ignore_on_disarm}

\* Mutant: the polarity of the written state is swapped.
TargetState_Swapped(is_armed) == IF is_armed THEN NonReactive ELSE Reactive

\* The state the handler writes: 0 when the panel is armed, 1 when disarmed.
TargetState(is_armed) == IF is_armed THEN Reactive ELSE NonReactive

\* [{"id": pid, "state": state} for pid in ignored_ids]
TargetsFor(ids, state) ==
    LET s == SortedSeq(ids) IN [i \in DOMAIN s |-> [id |-> s[i], state |-> state]]

\* ------------------------------------------------ panel state reader
\* The results get_all_live_building_arm_states can return: a dict, in the
\* order of the rows, of is_armed per building; <<>> is the empty dict.
LiveStates ==
    {s \in UNION {[1..n -> Buildings \X BOOLEAN] : n \in 0..NumBuildings} :
        \A i, j \in DOMAIN s : i # j => s[i][1] # s[j][1]}

\* The text of a panel state, in units: "A" is the prefix AreaArmingStates.
\* and "2", "4" and " " are the characters that can follow it.
Units == {"A", "2", "4", " "}
Texts == UNION {[1..n -> Units] : n \in 0..MaxTextLen}

\* The literal the reader looks for: AreaArmingStates.2
DisarmedMarker == <<"A", "2">>

\* A row of the panel_devices query: Building_FRK (0 is NULL) and the state
\* text (<<>> is NULL, <<t>> is the text t).
PanelRows ==
    [building_id : 0..NumBuildings, state_txt : {<<>>} \cup {<<t>> : t \in Texts}]
RowLists == UNION {[1..n -> PanelRows] : n \in 0..MaxRows}

\* str.strip(): the text without its leading and trailing blanks.
RECURSIVE strip(_)
strip(s) ==
    IF s = <<>> THEN s
    ELSE IF Head(s) = " " THEN strip(Tail(s))
    ELSE IF s[Len(s)] = " " THEN strip(SubSeq(s, 1, Len(s) - 1))
    ELSE s

\* The operator in of Python on strings: sub occurs in s.
Contains(sub, s) ==
    \E i \in 1..(Len(s) - Len(sub) + 1) : SubSeq(s, i, i + Len(sub) - 1) = sub

\* Mutant: the state is disarmed when the text is the marker and nothing else.
is_armed_of_Exact(state_txt) ==
    LET state_str == strip(IF state_txt = <<>> THEN <<>> ELSE state_txt[1])
    IN ~(state_str = DisarmedMarker)

\* The classification of one row by get_all_live_building_arm_states.
is_armed_of(state_txt) ==
    LET state_str == strip(IF state_txt = <<>> THEN <<>> ELSE state_txt[1])
    IN ~Contains(DisarmedMarker, state_str)

\* result[key] = value of a Python dict kept as a list of pairs: the value
\* of an old key is replaced in place, a new key goes to the end.
DictSet(result, key, value) ==
    IF \E i \in DOMAIN result : result[i][1] = key
    THEN [i \in DOMAIN result |->
            IF result[i][1] = key THEN <<key, value>> ELSE result[i]]
    ELSE Append(result, <<key, value>>)

\* The loop of get_all_live_building_arm_states over the rows, from result.
RECURSIVE ReadRows(_, _)
ReadRows(result, rows) ==
    IF rows = <<>> THEN result
    ELSE LET row == Head(rows)
         IN ReadRows(IF row.building_id = 0 THEN result
                     ELSE DictSet(result, row.building_id, is_armed_of(row.state_txt)),
                     Tail(rows))

\* get_all_live_building_arm_states, given the rows the query returned.
get_all_live_building_arm_states(rows) == ReadRows(<<>>, rows)

\* ------------------------------------------------ transition handler
\* One iteration of the for loop of manage_proevents_on_panel_state_change.
\* acc carries the store, new_cached_states, the bulk writes made and what
\* was done per building; fetch_raises and db_ok are the outcomes of the
\* database calls of this iteration.
\* Mutant: the no-change test is lost, every observation is a transition.
StateChanged_Always(prev_state, is_armed) == TRUE

\* "if prev_state == is_armed: continue", negated.
StateChanged(prev_state, is_armed) == prev_state # is_armed

HandleBuilding(acc, cached_states, ign, b, is_armed, fetch_raises, db_ok) ==
    LET note(outcome) ==
            Append(acc.handled, [building |-> b, is_armed |-> is_armed, outcome |-> outcome])
        stored == Put(acc.new_cached_states, b, is_armed)
    IN
    IF b \notin DOMAIN cached_states
    THEN \* First run -> store and continue
         [acc EXCEPT !.new_cached_states = stored, !.handled = note("first_run")]
    ELSE IF ~StateChanged(cached_states[b], is_armed)
    THEN \* No change -> skip
         [acc EXCEPT !.handled = note("no_change")]
    ELSE IF fetch_raises
    THEN \* get_proevents_for_building_from_db re-raises: the loop is left
         [acc EXCEPT !.raised = TRUE, !.handled = note("raised")]
    ELSE
    LET all_proevents == get_proevents_for_building_from_db(acc.store, b)
        ids == ignored_ids(ign, b)
        target_states == TargetsFor(ids, TargetState(is_armed))
        res == set_proevent_reactive_state_bulk(acc.store, target_states, db_ok)
    IN
    IF all_proevents = <<>>
    THEN [acc EXCEPT !.new_cached_states = stored, !.handled = note("no_proevents")]
    ELSE [acc EXCEPT
            !.store = res.store,
            !.new_cached_states = stored,
            !.bulk_writes = IF res.issued
                            THEN Append(@, WriteRecord(b, target_states, res))
                            ELSE @,
            !.handled = note(IF is_armed THEN "armed" ELSE "disarmed")]

\* The buildings of live_states the loop did not get to.
NotReached(live_states) ==
    [i \in DOMAIN live_states |->
        [building |-> live_states[i][1], is_armed |-> live_states[i][2],
         outcome |-> "not_reached"]]

\* The for loop: the buildings of live_states in order, until one raises.
RECURSIVE HandleAll(_, _, _, _, _, _)
HandleAll(acc, cached_states, ign, live_states, raise_at, fail_at) ==
    IF live_states = <<>> THEN acc
    ELSE IF acc.raised THEN [acc EXCEPT !.handled = @ \o NotReached(live_states)]
    ELSE LET b == Head(live_states)[1]
             is_armed == Head(live_states)[2]
         IN HandleAll(
                HandleBuilding(acc, cached_states, ign, b, is_armed,
                               b \in raise_at, b \notin fail_at),
                cached_states, ign, Tail(live_states), raise_at, fail_at)

\* Mutant: the observations made before the exception are saved, the one of
\* the building whose fetch raised included.
SavedCache_Always(acc, cached_states) ==
    LET h == acc.handled
    IN [b \in (DOMAIN cached_states) \cup
               {h[i].building : i \in {j \in DOMAIN h : h[j].outcome # "not_reached"}} |->
          IF \E i \in DOMAIN h : h[i].building = b /\ h[i].outcome # "not_reached"
          THEN (CHOOSE e \in Range(h) : e.building = b).is_armed
          ELSE cached_states[b]]

\* The cache value "panel_state_cache" after the call: set_cache_value is
\* skipped when the loop was left by an exception.
SavedCache(acc, cached_states) ==
    IF acc.raised THEN cached_states ELSE acc.new_cached_states

\* manage_proevents_on_panel_state_change: the result of the whole call.
manage_proevents_on_panel_state_change(st, cached_states, ign, live_states, raise_at, fail_at) ==
    LET acc0 == [store |-> st, new_cached_states |-> cached_states,
                 bulk_writes |-> <<>>, handled |-> <<>>, raised |-> FALSE]
        acc == HandleAll(acc0, cached_states, ign, live_states, raise_at, fail_at)
    IN [store |-> acc.store,
        panel_state_cache |-> SavedCache(acc, cached_states),
        bulk_writes |-> acc.bulk_writes,
        handled |-> acc.handled]

\* ------------------------------------------------------------ clock
\* datetime.strptime(text, '%H:%M').time(): the instant a HH:MM text names.
ParseTime(t) == t * SubPerMinute

\* datetime.now().strftime("%H:%M"): the minute an instant lies in.
FormatMinute(now) == now \div SubPerMinute

\* Mutant: the job is registered with a period one reading short of n minutes.
every_Short(n) == n * SubPerMinute - 1

\* schedule.every(n).minutes: the period of the job, in readings of the clock.
every(n) == n * SubPerMinute

\* is_time_between: both bounds are compared with <=.
is_time_between(start_time_str, end_time_str, now) ==
    IF end_time_str = <<>> THEN FALSE
    ELSE LET start_time == ParseTime(start_time_str)
             end_time == ParseTime(end_time_str[1])
         IN IF start_time <= end_time
            THEN start_time <= now /\ now <= end_time
            ELSE start_time <= now \/ now <= end_time

\* ---------------------------------------------------------- snapshot store
\* sqlite_config.get_snapshot(b) is not None: a snapshot is stored for b.
snapshot_exists(snaps, b) == b \in DOMAIN snaps

\* sqlite_config.save_snapshot: the rows of b are replaced by snapshot_data.
save_snapshot(snaps, b, snapshot_data) == Put(snaps, b, snapshot_data)

\* sqlite_config.clear_snapshot: the rows of b are deleted.
clear_snapshot(snaps, b) == Drop(snaps, b)

\* ------------------------------------------------------ window reconciler
\* Mutant: the snapshot is read back from the store after the override is
\* written.
take_snapshot_and_apply_schedule_After(st, snaps, ign, b, fetch_raises, db_ok) ==
    LET all_devices_from_db == get_proevents_for_building_from_db(st, b)
        ids == ignored_ids(ign, b)
        target_states == [i \in DOMAIN all_devices_from_db |->
                            [id |-> all_devices_from_db[i].id,
                             state |-> IF all_devices_from_db[i].id \in ids
                                       THEN NonReactive ELSE Reactive]]
        res == set_proevent_reactive_state_bulk(st, target_states, db_ok)
        late == get_proevents_for_building_from_db(res.store, b)
    IN IF fetch_raises \/ all_devices_from_db = <<>>
       THEN [store |-> st, snapshots |-> snaps, bulk_writes |-> <<>>,
             case |-> "entry_failed"]
       ELSE [store |-> res.store,
             snapshots |-> save_snapshot(snaps, b, late),
             case |-> "entry",
             bulk_writes |-> IF res.issued
                             THEN <<WriteRecord(b, target_states, res)>>
                             ELSE <<>>]

\* Mutant: a fetch that fails or finds nothing stores an empty snapshot.
take_snapshot_and_apply_schedule_Empty(st, snaps, ign, b, fetch_raises, db_ok) ==
    LET all_devices_from_db == get_proevents_for_building_from_db(st, b)
        snapshot_data == [i \in DOMAIN all_devices_from_db |->
                            [id |-> all_devices_from_db[i].id,
                             state |-> all_devices_from_db[i].state]]
        ids == ignored_ids(ign, b)
        target_states == [i \in DOMAIN snapshot_data |->
                            [id |-> snapshot_data[i].id,
                             state |-> IF snapshot_data[i].id \in ids
                                       THEN NonReactive ELSE Reactive]]
        res == set_proevent_reactive_state_bulk(st, target_states, db_ok)
    IN IF fetch_raises \/ all_devices_from_db = <<>>
       THEN [store |-> st, snapshots |-> save_snapshot(snaps, b, <<>>),
             bulk_writes |-> <<>>, case |-> "entry_failed"]
       ELSE [store |-> res.store,
             snapshots |-> save_snapshot(snaps, b, snapshot_data),
             case |-> "entry",
             bulk_writes |-> IF res.issued
                             THEN <<WriteRecord(b, target_states, res)>>
                             ELSE <<>>]

\* take_snapshot_and_apply_schedule: the snapshot is saved before the
\* override is written; the result of the bulk write is not looked at.
take_snapshot_and_apply_schedule(st, snaps, ign, b, fetch_raises, db_ok) ==
    LET all_devices_from_db == get_proevents_for_building_from_db(st, b)
        snapshot_data == [i \in DOMAIN all_devices_from_db |->
                            [id |-> all_devices_from_db[i].id,
                             state |-> all_devices_from_db[i].state]]
        ids == ignored_ids(ign, b)
        target_states == [i \in DOMAIN snapshot_data |->
                            [id |-> snapshot_data[i].id,
                             state |-> IF snapshot_data[i].id \in ids
                                       THEN NonReactive ELSE Reactive]]
        res == set_proevent_reactive_state_bulk(st, target_states, db_ok)
    IN IF fetch_raises \/ all_devices_from_db = <<>>
       THEN [store |-> st, snapshots |-> snaps, bulk_writes |-> <<>>,
             case |-> "entry_failed"]
       ELSE [store |-> res.store,
             snapshots |-> save_snapshot(snaps, b, snapshot_data),
             case |-> "entry",
             bulk_writes |-> IF res.issued
                             THEN <<WriteRecord(b, target_states, res)>>
                             ELSE <<>>]

\* revert_snapshot: the snapshot is cleared after the bulk write, whatever
\* the bulk write returned.
revert_snapshot(st, snaps, b, snapshot_data, db_ok) ==
    LET res == set_proevent_reactive_state_bulk(st, snapshot_data, db_ok)
    IN [store |-> res.store,
        snapshots |-> clear_snapshot(snaps, b),
        case |-> "exit",
        bulk_writes |-> IF res.issued
                        THEN <<WriteRecord(b, snapshot_data, res)>>
                        ELSE <<>>]

\* Mutant: inside the window the snapshot is taken whether one exists or not.
evaluate_building_state_Recapture(st, snaps, sched, ign, b, now, fetch_raises, db_ok) ==
    LET nothing(case) ==
            [store |-> st, snapshots |-> snaps, bulk_writes |-> <<>>, case |-> case]
    IN IF b \notin DOMAIN sched THEN nothing("no_schedule")
       ELSE LET is_inside_schedule ==
                    is_time_between(sched[b].start_time, sched[b].end_time, now)
                exists == snapshot_exists(snaps, b)
            IN IF is_inside_schedule
               THEN take_snapshot_and_apply_schedule(st, snaps, ign, b, fetch_raises, db_ok)
               ELSE IF exists
               THEN revert_snapshot(st, snaps, b, snaps[b], db_ok)
               ELSE nothing("steady")

\* Mutant: a building without a snapshot gets one, inside the window or not.
evaluate_building_state_Eager(st, snaps, sched, ign, b, now, fetch_raises, db_ok) ==
    LET nothing(case) ==
            [store |-> st, snapshots |-> snaps, bulk_writes |-> <<>>, case |-> case]
    IN IF b \notin DOMAIN sched THEN nothing("no_schedule")
       ELSE LET is_inside_schedule ==
                    is_time_between(sched[b].start_time, sched[b].end_time, now)
                exists == snapshot_exists(snaps, b)
            IN IF ~exists
               THEN take_snapshot_and_apply_schedule(st, snaps, ign, b, fetch_raises, db_ok)
               ELSE IF ~is_inside_schedule
               THEN revert_snapshot(st, snaps, b, snaps[b], db_ok)
               ELSE nothing("active")

\* _evaluate_building_state: the four cases of the state machine.
evaluate_building_state(st, snaps, sched, ign, b, now, fetch_raises, db_ok) ==
    LET nothing(case) ==
            [store |-> st, snapshots |-> snaps, bulk_writes |-> <<>>, case |-> case]
    IN IF b \notin DOMAIN sched THEN nothing("no_schedule")
       ELSE LET is_inside_schedule ==
                    is_time_between(sched[b].start_time, sched[b].end_time, now)
                exists == snapshot_exists(snaps, b)
            IN IF is_inside_schedule /\ ~exists
               THEN take_snapshot_and_apply_schedule(st, snaps, ign, b, fetch_raises, db_ok)
               ELSE IF ~is_inside_schedule /\ exists
               THEN revert_snapshot(st, snaps, b, snaps[b], db_ok)
               ELSE IF is_inside_schedule THEN nothing("active")
               ELSE nothing("steady")

\* ---------------------------------------------------------------- notifier
\* What can happen to one alert: the message is sent, the connection or the
\* send fails, or the building name is not found.
SendOutcomes == [Buildings -> {"sent", "refused", "unnamed"}]

\* Mutant: a refused connection is tried a second time.
send_disarmed_axe_message_Retry(b, outcome) ==
    [building |-> b,
     attempts |-> IF outcome = "unnamed" THEN 0 ELSE IF outcome = "refused" THEN 2 ELSE 1,
     delivered |-> outcome = "sent"]

\* send_disarmed_axe_message: one connect and one sendall inside one try;
\* no connection is opened when the name is not found.
send_disarmed_axe_message(b, outcome) ==
    [building |-> b,
     attempts |-> IF outcome = "unnamed" THEN 0 ELSE 1,
     delivered |-> outcome = "sent"]

\* Mutant: the alert is sent whatever the panel state is.
check_and_manage_scheduled_states_AnyState(sched, live_states, now) ==
    LET current_time == FormatMinute(now)
    IN SelectSeq(live_states,
                 LAMBDA e : /\ e[1] \in DOMAIN sched
                            /\ current_time = sched[e[1]].start_time)

\* Mutant: a scheduled building that the reader did not report is taken to
\* be disarmed.
check_and_manage_scheduled_states_AbsentDisarmed(sched, live_states, now) ==
    LET current_time == FormatMinute(now)
        absent == SortedSeq({b \in DOMAIN sched :
                                /\ \A i \in DOMAIN live_states : live_states[i][1] # b
                                /\ current_time = sched[b].start_time})
    IN SelectSeq(live_states,
                 LAMBDA e : /\ e[1] \in DOMAIN sched
                            /\ current_time = sched[e[1]].start_time
                            /\ ~e[2])
       \o [i \in DOMAIN absent |-> <<absent[i], FALSE>>]

\* Mutant: a building without a schedule is given the first minute of the
\* day as its start time.
check_and_manage_scheduled_states_DefaultStart(sched, live_states, now) ==
    LET current_time == FormatMinute(now)
    IN SelectSeq(live_states,
                 LAMBDA e : /\ current_time = (IF e[1] \in DOMAIN sched
                                               THEN sched[e[1]].start_time ELSE 0)
                            /\ ~e[2])

\* check_and_manage_scheduled_states: the buildings, in the order of
\* live_states, for which send_disarmed_axe_message is called.
check_and_manage_scheduled_states(sched, live_states, now) ==
    LET current_time == FormatMinute(now)
    IN SelectSeq(live_states,
                 LAMBDA e : /\ e[1] \in DOMAIN sched
                            /\ current_time = sched[e[1]].start_time
                            /\ ~e[2])

\* Mutant: the loop is left at the first alert that is not delivered.
SendAlerts_UntilFailure(calls, outcomes) ==
    LET done == [i \in DOMAIN calls |->
                    send_disarmed_axe_message(calls[i][1], outcomes[calls[i][1]])]
        failed == {i \in DOMAIN done : ~done[i].delivered}
    IN SubSeq(done, 1, IF failed = {} THEN Len(done)
                       ELSE CHOOSE i \in failed : \A j \in failed : i <= j)

\* The calls of send_disarmed_axe_message in the loop of
\* check_and_manage_scheduled_states: the function catches what it raises,
\* so each building that qualifies is called for, whatever came of the others.
SendAlerts(calls, outcomes) ==
    [i \in DOMAIN calls |->
        send_disarmed_axe_message(calls[i][1], outcomes[calls[i][1]])]

\* ------------------------------------------------------------------ state
NoOp == [name |-> "none", building |-> 0, case |-> "none"]

\* The state after start-up, with the rows ign of ignored_proevents and
\* the rows sched of building_times, and with read as the read of the panel
\* rows that is under way.
InitWith(ign, sched, read) ==
    /\ store \in [Triggers -> States]
    /\ ignored = ign
    /\ schedule = sched
    /\ snapshots = <<>>
    /\ panel_state_cache = <<>>
    /\ clock = 0
    /\ pc = "idle"
    /\ op = NoOp
    /\ handled = <<>>
    /\ bulk_writes = <<>>
    /\ alerts = <<>>
    /\ last_seen = <<>>
    /\ next_run = every(1)
    /\ minute_checked = FALSE
    /\ before_entry = <<>>
    /\ loop = <<>>
    /\ manual = <<>>
    /\ sends = <<>>
    /\ panel_read = read
    /\ has_run = FALSE

\* The state after start-up: no read of the panel rows is under way.
InitOf(ign, sched) == InitWith(ign, sched, <<>>)

\* The local configuration store is empty at first.
Init == InitOf(<<>>, <<>>)

\* ------------------------------------------------------- scheduled_job
\* Mutant: every due job is run on a thread of its own.
JobCanStart_Threaded(p) == TRUE

\* run_pending calls scheduled_job on the scheduler thread: a job starts
\* when the thread is not inside one.
JobCanStart(p) == p = "idle"

\* Mutant: an exception of the cycle ends the scheduler thread.
AfterJob_Uncaught(raised) == IF raised THEN "dead" ELSE "done"

\* The except clauses of manage_proevents_on_panel_state_change and of
\* scheduled_job: the job returns to run_scheduler whether it raised or not.
AfterJob(raised) == "done"

\* Mutant: phase 2 is the first statement of the job.
HandlerCanStart_First(p) == p = "idle"

\* scheduled_job calls manage_proevents_on_panel_state_change after
\* check_and_manage_scheduled_states has returned.
HandlerCanStart(p) == p = "phase2"

\* An exception was raised inside the handler run h.
Raised(h) == \E i \in DOMAIN h : h[i].outcome = "raised"

\* Phase 1 of scheduled_job: check_and_manage_scheduled_states.
Phase1Of(live_states) ==
    /\ JobCanStart(pc)
    /\ alerts' = check_and_manage_scheduled_states(schedule, live_states, clock)
    /\ \E outcomes \in SendOutcomes : sends' = SendAlerts(alerts', outcomes)
    /\ op' = [NoOp EXCEPT !.name = "check_and_manage_scheduled_states"]
    /\ pc' = "phase2"
    /\ bulk_writes' = <<>>
    /\ minute_checked' = TRUE
    /\ UNCHANGED <<has_run, panel_read, store, ignored, schedule, snapshots, panel_state_cache,
                   clock, handled, last_seen, next_run, before_entry, loop, manual>>

Phase1 == \E live_states \in LiveStates : Phase1Of(live_states)

\* The is_armed values a handler run saw, on top of those seen before.
RECURSIVE Seen(_, _)
Seen(seen, h) ==
    IF h = <<>> THEN seen
    ELSE Seen(IF Head(h).outcome = "not_reached" THEN seen
              ELSE Put(seen, Head(h).building, Head(h).is_armed),
              Tail(h))

\* The loop ends at the first fetch that raises: no fetch raises, or the
\* fetch of one building does.
RaisePoints == {{}} \cup {{b} : b \in Buildings}

\* Phase 2 of scheduled_job: manage_proevents_on_panel_state_change.
Phase2 ==
    /\ HandlerCanStart(pc)
    /\ \E live_states \in LiveStates, raise_at \in RaisePoints, fail_at \in SUBSET Buildings :
        LET r == manage_proevents_on_panel_state_change(
                    store, panel_state_cache, ignored, live_states, raise_at, fail_at)
        IN /\ store' = r.store
           /\ panel_state_cache' = r.panel_state_cache
           /\ bulk_writes' = r.bulk_writes
           /\ handled' = r.handled
           /\ last_seen' = Seen(last_seen, r.handled)
           /\ pc' = AfterJob(Raised(r.handled))
    /\ op' = [NoOp EXCEPT !.name = "manage_proevents_on_panel_state_change"]
    /\ UNCHANGED <<has_run, panel_read, sends, ignored, schedule, snapshots, clock, alerts,
                   next_run, minute_checked, before_entry, loop, manual>>

\* scheduled_job returns; the loop of run_scheduler waits for the next minute.
Finish ==
    /\ pc = "done"
    /\ pc' = "idle"
    /\ op' = NoOp
    /\ handled' = <<>>
    /\ bulk_writes' = <<>>
    /\ alerts' = <<>>
    /\ sends' = <<>>
    /\ next_run' = every(1)
    /\ has_run' = TRUE
    /\ UNCHANGED <<panel_read, store, ignored, schedule, snapshots, panel_state_cache,
                   clock, last_seen, minute_checked, before_entry, loop, manual>>

\* ------------------------------------------------- manual re-evaluation
\* The states the triggers of b have in st.
StatesAt(st, b) == [t \in {x \in Triggers : BuildingOf(x) = b} |-> st[t]]

\* before_entry after an evaluation of b that found the store st: the
\* states are recorded at a window entry and forgotten at a window exit.
Recorded(rec, st, b, case) ==
    IF case = "entry" THEN Put(rec, b, StatesAt(st, b))
    ELSE IF case = "exit" THEN Drop(rec, b)
    ELSE rec

\* Mutant: the panel flag is not looked at.
reevaluate_building_state_Unguarded(st, snaps, sched, ign, b, now, is_panel_armed, fetch_raises, db_ok) ==
    evaluate_building_state(st, snaps, sched, ign, b, now, fetch_raises, db_ok)

\* The body of reevaluate_building_state: nothing is done when the cache
\* value "panel_armed" is truthy, _evaluate_building_state is called once
\* otherwise.
reevaluate_building_state(st, snaps, sched, ign, b, now, is_panel_armed, fetch_raises, db_ok) ==
    IF is_panel_armed
    THEN [store |-> st, snapshots |-> snaps, bulk_writes |-> <<>>, case |-> "skipped"]
    ELSE evaluate_building_state(st, snaps, sched, ign, b, now, fetch_raises, db_ok)

\* reevaluate_building_state, called by the HTTP layer; is_panel_armed is
\* the cache value "panel_armed", which no code at hand sets.
Reevaluate(b) ==
    /\ pc = "idle"
    /\ \E is_panel_armed \in BOOLEAN, fetch_raises \in BOOLEAN, db_ok \in BOOLEAN :
        LET r == reevaluate_building_state(store, snapshots, schedule, ignored, b, clock,
                                           is_panel_armed, fetch_raises, db_ok)
        IN /\ store' = r.store
           /\ snapshots' = r.snapshots
           /\ bulk_writes' = r.bulk_writes
           /\ op' = [name |-> "reevaluate_building_state", building |-> b,
                     case |-> r.case]
           /\ before_entry' = Recorded(before_entry, store, b, r.case)
    /\ UNCHANGED <<has_run, panel_read, sends, ignored, schedule, panel_state_cache, clock, pc,
                   handled, alerts, last_seen, next_run, minute_checked, loop, manual>>

\* ------------------------------------------------------- the environment
\* What an edit of the administrators, made between two cycles, leaves alone.
Edited ==
    /\ pc = "idle"
    /\ op' = NoOp
    /\ bulk_writes' = <<>>
    /\ UNCHANGED <<has_run, panel_read, sends, store, snapshots, panel_state_cache, clock, pc,
                   handled, alerts, last_seen, next_run, minute_checked, before_entry,
                   loop, manual>>

\* The admin API writes a row of ignored_proevents.
SetIgnored(t, e) ==
    /\ ignored' = Put(ignored, t, e)
    /\ ignored' # ignored
    /\ Cardinality(DOMAIN ignored') <= MaxIgnored
    /\ Edited
    /\ UNCHANGED schedule

\* The admin API deletes a row of ignored_proevents.
RemoveIgnored(t) ==
    /\ t \in DOMAIN ignored
    /\ ignored' = Drop(ignored, t)
    /\ Edited
    /\ UNCHANGED schedule

\* The admin API writes a row of building_times.
SetSchedule(b, s) ==
    /\ schedule' = Put(schedule, b, s)
    /\ schedule' # schedule
    /\ Cardinality(DOMAIN schedule') <= MaxScheduled
    /\ Edited
    /\ UNCHANGED ignored

\* Time passes, where no scheduler thread is looked at.
Advance ==
    /\ clock' = (clock + 1) % (DayLen * SubPerMinute)
    /\ UNCHANGED <<has_run, panel_read, sends, store, ignored, schedule, snapshots,
                   panel_state_cache, pc, op, handled, bulk_writes, alerts, last_seen,
                   next_run, minute_checked, before_entry, loop, manual>>

\* Time passes while the scheduler thread runs: the job comes nearer to
\* being due, and a new minute has seen no notifier check yet.
Elapse ==
    /\ clock' = (clock + 1) % (DayLen * SubPerMinute)
    /\ next_run' = IF next_run > 0 THEN next_run - 1 ELSE 0
    /\ minute_checked' = (minute_checked /\ FormatMinute(clock') = FormatMinute(clock))
    /\ UNCHANGED <<has_run, panel_read, sends, store, ignored, schedule, snapshots,
                   panel_state_cache, pc, op, handled, bulk_writes, alerts, last_seen,
                   before_entry, loop, manual>>

\* ------------------------------------------------------- specifications
\* The poll loop and the edits of the ignore registry.
Next ==
    \/ Phase1
    \/ Phase2
    \/ Finish
    \/ \E t \in Triggers, e \in IgnoreEntries : SetIgnored(t, e)
    \/ \E t \in Triggers : RemoveIgnored(t)

Spec == Init /\ [][Next]_vars

\* The window reconciler, run by manual re-evaluation, with schedules and time.
NextWindow ==
    \/ \E b \in Buildings : Reevaluate(b)
    \/ \E t \in Triggers, e \in IgnoreEntries : SetIgnored(t, e)
    \/ \E t \in Triggers : RemoveIgnored(t)
    \/ \E b \in Buildings, s \in ScheduleChoices : SetSchedule(b, s)
    \/ Advance

SpecWindow == Init /\ [][NextWindow]_vars

\* schedule.run_pending: the job is run when it is due.
RunPendingOf(live_states) == next_run = 0 /\ Phase1Of(live_states)

run_pending == \E live_states \in LiveStates : RunPendingOf(live_states)

\* The scheduler thread with its timer, the schedules and the clock.
NextClock ==
    \/ run_pending
    \/ Phase2
    \/ Finish
    \/ \E b \in Buildings, s \in ScheduleChoices : SetSchedule(b, s)
    \/ Elapse

\* No row of the ignore registry exists here, so that no trigger is read
\* or written: the triggers start Reactive.
InitClock == Init /\ store = [t \in Triggers |-> Reactive]

SpecClock == InitClock /\ [][NextClock]_vars

\* run_scheduler never stops calling run_pending, the calls of the job
\* return, and time passes.
SpecClockFair ==
    /\ SpecClock
    /\ WF_vars(run_pending)
    /\ WF_vars(Phase2)
    /\ WF_vars(Finish)
    /\ WF_vars(Elapse)

\* ------------------------------------------------------- the prompt loop
\* Time passes for a loop that is never late: run_scheduler calls
\* run_pending every second, so a job that is due is started before the
\* clock moves on, and a job that runs is over before the minute after the
\* one it was started in has passed.
ElapsePrompt ==
    /\ ~(JobCanStart(pc) /\ next_run = 0)
    /\ ~JobCanStart(pc) => minute_checked
    /\ Elapse

NextPrompt ==
    \/ run_pending
    \/ Phase2
    \/ Finish
    \/ \E b \in Buildings, s \in ScheduleChoices : SetSchedule(b, s)
    \/ ElapsePrompt

SpecPrompt == InitClock /\ [][NextPrompt]_vars

\* ------------------------------------------------------- every building scheduled
\* The scheduler thread and the clock where every building has the same
\* schedule, so that several buildings qualify for the alert in one cycle.
InitNotify ==
    /\ \E s \in ScheduleChoices : InitOf(<<>>, [b \in Buildings |-> s])
    /\ store = [t \in Triggers |-> Reactive]

NextNotify ==
    \/ run_pending
    \/ Phase2
    \/ Finish
    \/ Elapse

SpecNotify == InitNotify /\ [][NextNotify]_vars

\* --------------------------------------------------- a call without answer
\* A query of the cycle is sent over the engine of config.py, which sets a
\* time limit for the login and for the pool and none for a statement, and
\* the server never answers it: the scheduler thread stays inside the call.
\* Nothing in the code takes the thread out of it.
Hang ==
    /\ (JobCanStart(pc) /\ next_run = 0) \/ HandlerCanStart(pc)
    /\ pc' = "blocked"
    /\ UNCHANGED <<has_run, store, ignored, schedule, snapshots, panel_state_cache, clock, op,
                   handled, bulk_writes, alerts, last_seen, next_run, minute_checked,
                   before_entry, loop, manual, sends, panel_read>>

NextHang == NextClock \/ Hang

SpecHang == InitClock /\ [][NextHang]_vars

\* The fairness of SpecClockFair, where a query can stay without answer.
SpecHangFair ==
    /\ SpecHang
    /\ WF_vars(run_pending)
    /\ WF_vars(Phase2)
    /\ WF_vars(Finish)
    /\ WF_vars(Elapse)

\* ------------------------------------------------------- the panel reader
\* get_all_live_building_arm_states turns the rows of its query into the map.
ReadPanel ==
    /\ panel_read # <<>>
    /\ ~panel_read[1].done
    /\ panel_read' = <<[rows |-> panel_read[1].rows,
                        result |-> get_all_live_building_arm_states(panel_read[1].rows),
                        done |-> TRUE]>>
    /\ UNCHANGED <<has_run, store, ignored, schedule, snapshots, panel_state_cache, clock, pc,
                   op, handled, bulk_writes, alerts, last_seen, next_run,
                   minute_checked, before_entry, loop, manual, sends>>

NextReader == ReadPanel

\* The query has returned any list of rows.
InitReader ==
    \E rows \in RowLists :
        /\ InitWith(<<>>, <<>>, <<[rows |-> rows, result |-> <<>>, done |-> FALSE]>>)
        /\ store = [t \in Triggers |-> Reactive]

SpecReader == InitReader /\ [][NextReader]_vars

\* ------------------------------------------------------- the two threads
\* The scheduler thread, one iteration of the handler's loop at a time, and
\* a request thread that runs reevaluate_building_state.

\* manage_proevents_on_panel_state_change up to its for loop: the cache and
\* the panel states are read.
LoopBegin ==
    /\ HandlerCanStart(pc)
    /\ \E live_states \in LiveStates :
        loop' = << [live_states |-> live_states,
                    cached_states |-> panel_state_cache,
                    acc |-> [store |-> store, new_cached_states |-> panel_state_cache,
                             bulk_writes |-> <<>>, handled |-> <<>>, raised |-> FALSE]] >>
    /\ pc' = "loop"
    /\ UNCHANGED <<has_run, panel_read, sends, store, ignored, schedule, snapshots,
                   panel_state_cache, clock, op, handled, bulk_writes, alerts,
                   last_seen, next_run, minute_checked, before_entry, manual>>

\* One iteration of the for loop, on the store as it is now.
LoopIter ==
    /\ pc = "loop"
    /\ loop[1].live_states # <<>>
    /\ ~loop[1].acc.raised
    /\ \E fetch_raises \in BOOLEAN, db_ok \in BOOLEAN :
        LET e == Head(loop[1].live_states)
            acc == HandleBuilding([loop[1].acc EXCEPT !.store = store],
                                  loop[1].cached_states, ignored, e[1], e[2],
                                  fetch_raises, db_ok)
        IN /\ store' = acc.store
           /\ loop' = << [loop[1] EXCEPT !.live_states = Tail(@), !.acc = acc] >>
    /\ UNCHANGED <<has_run, panel_read, sends, ignored, schedule, snapshots, panel_state_cache,
                   clock, pc, op, handled, bulk_writes, alerts, last_seen, next_run,
                   minute_checked, before_entry, manual>>

\* The loop is left, at its end or by an exception; the cache is saved
\* unless an exception was raised.
LoopEnd ==
    /\ pc = "loop"
    /\ loop[1].live_states = <<>> \/ loop[1].acc.raised
    /\ LET acc == [loop[1].acc EXCEPT !.handled = @ \o NotReached(loop[1].live_states)]
       IN /\ panel_state_cache' = SavedCache(acc, loop[1].cached_states)
          /\ handled' = acc.handled
          /\ bulk_writes' = acc.bulk_writes
          /\ last_seen' = Seen(last_seen, acc.handled)
          /\ pc' = AfterJob(acc.raised)
    /\ loop' = <<>>
    /\ op' = [NoOp EXCEPT !.name = "manage_proevents_on_panel_state_change"]
    /\ UNCHANGED <<has_run, panel_read, sends, store, ignored, schedule, snapshots, clock,
                   alerts, next_run, minute_checked, before_entry, manual>>

\* reevaluate_building_state up to the decision of _evaluate_building_state:
\* the schedule, the clock and the snapshot are read. Cases B and D, a
\* building without a schedule and an armed panel end the call here.
ManualBegin(b) ==
    /\ manual = <<>>
    /\ \E is_panel_armed \in BOOLEAN :
        LET is_inside_schedule ==
                is_time_between(schedule[b].start_time, schedule[b].end_time, clock)
            exists == snapshot_exists(snapshots, b)
        IN IF is_panel_armed \/ b \notin DOMAIN schedule \/ (is_inside_schedule <=> exists)
           THEN manual' = manual
           ELSE manual' = << [building |-> b,
                              case |-> IF is_inside_schedule THEN "entry" ELSE "exit",
                              snapshot |-> IF exists THEN snapshots[b] ELSE <<>>] >>
    /\ UNCHANGED <<has_run, panel_read, sends, store, ignored, schedule, snapshots,
                   panel_state_cache, clock, pc, op, handled, bulk_writes, alerts,
                   last_seen, next_run, minute_checked, before_entry, loop>>

\* take_snapshot_and_apply_schedule or revert_snapshot, as decided, on the
\* store as it is now; the snapshot written back is the one that was read.
ManualEnd ==
    /\ manual # <<>>
    /\ \E fetch_raises \in BOOLEAN, db_ok \in BOOLEAN :
        LET b == manual[1].building
            r == IF manual[1].case = "entry"
                 THEN take_snapshot_and_apply_schedule(store, snapshots, ignored, b,
                                                       fetch_raises, db_ok)
                 ELSE revert_snapshot(store, snapshots, b, manual[1].snapshot, db_ok)
        IN /\ store' = r.store
           /\ snapshots' = r.snapshots
           /\ before_entry' = Recorded(before_entry, store, b, r.case)
    /\ manual' = <<>>
    /\ UNCHANGED <<has_run, panel_read, sends, ignored, schedule, panel_state_cache, clock, pc,
                   op, handled, bulk_writes, alerts, last_seen, next_run,
                   minute_checked, loop>>

NextThreads ==
    \/ Phase1
    \/ LoopBegin
    \/ LoopIter
    \/ LoopEnd
    \/ Finish
    \/ \E b \in Buildings : ManualBegin(b)
    \/ ManualEnd

\* The configuration is not edited here: one row of ignored_proevents with
\* ignore_on_disarm, and the schedule of the building of that row, whose
\* window is open.
InitThreads ==
    \E t \in Triggers :
        InitOf(Put(<<>>, t, [building_frk |-> BuildingOf(t), ignore_on_arm |-> FALSE,
                             ignore_on_disarm |-> TRUE]),
               Put(<<>>, BuildingOf(t), [start_time |-> 0, end_time |-> <<1>>]))

SpecThreads == InitThreads /\ [][NextThreads]_vars

\* ------------------------------------------------- the cycle and the window
\* The scheduler thread with its timer, the passing of time, and manual
\* re-evaluations between the steps of the cycle.
NextSeason ==
    \/ run_pending
    \/ Phase2
    \/ Finish
    \/ Elapse
    \/ \E b \in Buildings : Reevaluate(b)

\* The configuration of InitThreads, with every trigger Reactive at first.
InitSeason == InitThreads /\ store = [t \in Triggers |-> Reactive]

SpecSeason == InitSeason /\ [][NextSeason]_vars

\* ------------------------------------------------- arming after a disarm
\* The poll loop from a store in which every trigger is Reactive, with a
\* registry whose rows name the building that owns the trigger: a trigger
\* is NonReactive here only when a disarm transition of its building set it.
NextRearm ==
    \/ Phase1
    \/ Phase2
    \/ Finish
    \/ \E t \in Triggers, e \in IgnoreEntries :
        e.building_frk = BuildingOf(t) /\ SetIgnored(t, e)
    \/ \E t \in Triggers : RemoveIgnored(t)

SpecRearm == InitClock /\ [][NextRearm]_vars

\* ======================================================= the claims
\* The entries of the handler run of this cycle, and its bulk writes for b.
Entries == Range(handled)
WritesOf(b) == {i \in DOMAIN bulk_writes : bulk_writes[i].building = b}
EntriesNext == Range(handled')
WritesOfNext(b) == {i \in DOMAIN bulk_writes' : bulk_writes'[i].building = b}

\* A step of the transition handler (phase 2 of a cycle).
HandlerStep == pc = "phase2" /\ pc' = "done"

\* The rows of the registry that name building b and have ignore_on_disarm.
DisarmIgnored(b) ==
    {t \in DOMAIN ignored : ignored[t].building_frk = b /\ ignored[t].ignore_on_disarm}

\* The triggers that some building's transition writes.
AnyDisarmIgnored == UNION {DisarmIgnored(b) : b \in Buildings}

TriggersOf(b) == {t \in Triggers : BuildingOf(t) = b}

\* C1: the first tick that observes a building stores the observed is_armed
\* value in the cache and issues no bulk write for it.
C1_Bootstrap ==
    pc = "done" =>
        \A e \in Entries :
            e.outcome = "first_run" =>
                /\ e.building \in DOMAIN panel_state_cache
                /\ panel_state_cache[e.building] = e.is_armed
                /\ WritesOf(e.building) = {}

Handled(b, k) == \E e \in Entries : e.building = b /\ e.outcome = k
HandledNext(b, k) == \E e \in EntriesNext : e.building = b /\ e.outcome = k

\* Every bulk write of this cycle for b went through.
WritesOk(b) == \A i \in WritesOf(b) : bulk_writes[i].success
WritesOkNext(b) == \A i \in WritesOfNext(b) : bulk_writes'[i].success

\* C3, as stated: after an arm transition every trigger of the building with
\* ignore_on_arm == false or without a row is Reactive, every trigger with
\* ignore_on_arm == true is NonReactive.
C3_Original ==
    pc = "done" =>
        \A b \in Buildings :
            (Handled(b, "armed") /\ WritesOk(b)) =>
                \A t \in TriggersOf(b) :
                    IF t \in DOMAIN ignored /\ ignored[t].ignore_on_arm
                    THEN store[t] = NonReactive
                    ELSE store[t] = Reactive

\* C3, amended: after an arm transition whose write went through, every
\* trigger whose row names the building and has ignore_on_disarm == true is
\* Reactive, and every trigger that no building's transition writes has the
\* state it had before; ignore_on_arm plays no part.
C3_ArmTransition ==
    [][HandlerStep =>
        \A b \in Buildings :
            (HandledNext(b, "armed") /\ WritesOkNext(b)) =>
                /\ \A t \in DisarmIgnored(b) : t \in Triggers => store'[t] = Reactive
                /\ \A t \in Triggers \ AnyDisarmIgnored : store'[t] = store[t]]_vars

\* An arm transition went through in a building that has a row written
\* Reactive and a NonReactive trigger without ignore_on_arm.
C3_Witness ==
    /\ pc = "done"
    /\ \E b \in Buildings :
        /\ Handled(b, "armed")
        /\ WritesOf(b) # {}
        /\ WritesOk(b)
        /\ \E t \in TriggersOf(b) :
            /\ ~(t \in DOMAIN ignored /\ ignored[t].ignore_on_arm)
            /\ store[t] = NonReactive

\* C4, as stated: after a disarm transition every trigger of the building
\* with ignore_on_disarm == true is NonReactive and every other trigger of
\* the building is Reactive.
C4_Original ==
    pc = "done" =>
        \A b \in Buildings :
            (Handled(b, "disarmed") /\ WritesOk(b)) =>
                \A t \in TriggersOf(b) :
                    IF t \in DOMAIN ignored /\ ignored[t].ignore_on_disarm
                    THEN store[t] = NonReactive
                    ELSE store[t] = Reactive

\* C4, amended: after a disarm transition whose write went through, every
\* trigger whose row names the building and has ignore_on_disarm == true is
\* NonReactive, and every trigger that no building's transition writes has
\* the state it had before.
C4_DisarmTransition ==
    [][HandlerStep =>
        \A b \in Buildings :
            (HandledNext(b, "disarmed") /\ WritesOkNext(b)) =>
                /\ \A t \in DisarmIgnored(b) : t \in Triggers => store'[t] = NonReactive
                /\ \A t \in Triggers \ AnyDisarmIgnored : store'[t] = store[t]]_vars

\* A disarm transition went through in a building that has a row written
\* NonReactive and another trigger that is NonReactive with no such row.
C4_Witness ==
    /\ pc = "done"
    /\ \E b \in Buildings :
        /\ Handled(b, "disarmed")
        /\ WritesOf(b) # {}
        /\ WritesOk(b)
        /\ \E t \in TriggersOf(b) \ DisarmIgnored(b) : store[t] = NonReactive
        /\ \E t \in TriggersOf(b) \cap DisarmIgnored(b) : store[t] = NonReactive

\* The ids a bulk write names.
TargetIds(w) == {w.target_states[i].id : i \in DOMAIN w.target_states}

\* C5, as stated: a handled transition issues exactly one bulk write, with
\* one entry for every trigger of the building.
C5_Original ==
    pc = "done" =>
        \A b \in Buildings :
            (Handled(b, "armed") \/ Handled(b, "disarmed")) =>
                /\ Cardinality(WritesOf(b)) = 1
                /\ \A i \in WritesOf(b) : TargetIds(bulk_writes[i]) = TriggersOf(b)

\* C5, amended: a detected transition issues at most one bulk write; a
\* handled one issues one exactly when some row names the building with
\* ignore_on_disarm == true, with one entry for each such row, all of the
\* state of the transition (Reactive on arm, NonReactive on disarm); the
\* other triggers of the building are not in the target set.
C5_OneWrite ==
    pc = "done" =>
        \A e \in Entries :
            LET b == e.building
                ids == DisarmIgnored(b)
            IN /\ Cardinality(WritesOf(b)) <= 1
               /\ WritesOf(b) # {} <=> (e.outcome \in {"armed", "disarmed"} /\ ids # {})
               /\ \A i \in WritesOf(b) :
                    LET ts == bulk_writes[i].target_states
                    IN /\ TargetIds(bulk_writes[i]) = ids
                       /\ Len(ts) = Cardinality(ids)
                       /\ \A j \in DOMAIN ts :
                            ts[j].state = IF e.is_armed THEN Reactive ELSE NonReactive

\* A transition was handled with a bulk write that leaves out a trigger of
\* the building.
C5_Witness ==
    /\ pc = "done"
    /\ \E b \in Buildings :
        /\ Handled(b, "armed") \/ Handled(b, "disarmed")
        /\ \E i \in WritesOf(b) : TriggersOf(b) \ TargetIds(bulk_writes[i]) # {}

\* C6: when the bulk write of a transition fails, the cache entry of the
\* building is set to the newly observed value all the same (so that no
\* later tick with the same observation writes again).
C6_FailedWriteAdvancesCache ==
    pc = "done" =>
        \A e \in Entries :
            (\E i \in WritesOf(e.building) : ~bulk_writes[i].success) =>
                /\ e.building \in DOMAIN panel_state_cache
                /\ panel_state_cache[e.building] = e.is_armed

\* C7: a fetch that raises for one building leaves the other buildings of
\* the tick evaluated, with their cache entries updated.
C7_OtherBuildingsHandled ==
    pc = "done" =>
        \A e \in Entries :
            e.outcome = "raised" =>
                \A o \in Entries \ {e} :
                    /\ o.outcome # "not_reached"
                    /\ o.building \in DOMAIN panel_state_cache
                    /\ panel_state_cache[o.building] = o.is_armed

\* C8: when the fetch raises for a building, its cache entry keeps the
\* value it had, which differs from the observed one; and a tick that
\* observes again a value the cache does not hold (the observation of an
\* aborted tick) handles the transition again: it fetches, and writes when
\* there are rows to write.
C8_FetchFailureRetried ==
    [][HandlerStep =>
        /\ \A e \in EntriesNext :
            e.outcome = "raised" =>
                /\ e.building \in DOMAIN panel_state_cache'
                /\ panel_state_cache'[e.building] = panel_state_cache[e.building]
                /\ panel_state_cache'[e.building] # e.is_armed
        /\ \A e \in EntriesNext :
            (/\ e.outcome # "not_reached"
             /\ e.building \in DOMAIN last_seen
             /\ last_seen[e.building] = e.is_armed
             /\ e.building \in DOMAIN panel_state_cache
             /\ panel_state_cache[e.building] # e.is_armed)
            => /\ e.outcome \in {"raised", "armed", "disarmed", "no_proevents"}
               /\ (e.outcome \in {"armed", "disarmed"} /\ DisarmIgnored(e.building) # {})
                    => WritesOfNext(e.building) # {}]_vars

\* The fetch raised for a building that has rows to write: the cache still
\* holds the value of before the transition.
C8_Witness ==
    /\ pc = "done"
    /\ \E e \in Entries :
        /\ e.outcome = "raised"
        /\ DisarmIgnored(e.building) # {}
        /\ panel_state_cache[e.building] # e.is_armed
        /\ last_seen[e.building] = e.is_armed

\* ------------------------------------------------- the window reconciler
\* A step in which _evaluate_building_state ran for building b.
EvaluatedStep(b) == Reevaluate(b) /\ op'.case # "skipped"

InsideWindow(b) ==
    /\ b \in DOMAIN schedule
    /\ is_time_between(schedule[b].start_time, schedule[b].end_time, clock)

OutsideWindow(b) ==
    /\ b \in DOMAIN schedule
    /\ ~is_time_between(schedule[b].start_time, schedule[b].end_time, clock)

\* The rows of a snapshot.
SnapshotRows(snapshot) == Range(snapshot)

\* Every trigger of b with its state in st.
StatesOf(st, b) == {[id |-> t, state |-> st[t]] : t \in TriggersOf(b)}

\* The state the override of a window gives trigger t, as the claim has it.
OverrideByFlag(t) ==
    IF t \in DOMAIN ignored /\ ignored[t].ignore_on_disarm THEN NonReactive ELSE Reactive

\* The state the override gives trigger t of building b, by the rows that
\* name b.
OverrideFor(b, t) == IF t \in DisarmIgnored(b) THEN NonReactive ELSE Reactive

C10_WindowExit ==
    [][\A b \in Buildings :
        (EvaluatedStep(b) /\ OutsideWindow(b) /\ b \in DOMAIN snapshots) =>
            /\ \A r \in SnapshotRows(snapshots[b]) : store'[r.id] = r.state
            /\ b \notin DOMAIN snapshots']_vars

\* C11: a window entry followed by a window exit, with no other writer of
\* the building's triggers in between, leaves every trigger of the building
\* in the state it had before the entry and leaves no snapshot.
C11_RoundTrip ==
    [][\A b \in Buildings :
        (EvaluatedStep(b) /\ op'.case = "exit" /\ b \in DOMAIN before_entry) =>
            /\ \A t \in TriggersOf(b) : store'[t] = before_entry[b][t]
            /\ b \notin DOMAIN snapshots']_vars

\* C12: every building has at most one snapshot, with one row per trigger,
\* and an evaluation that finds a snapshot never captures: the snapshot it
\* leaves, if any, is the one it found.
C12_OneSnapshot ==
    /\ [](\A b \in DOMAIN snapshots :
            /\ b \in Buildings
            /\ Cardinality({snapshots[b][i].id : i \in DOMAIN snapshots[b]}) = Len(snapshots[b]))
    /\ [][\A b \in Buildings :
            (EvaluatedStep(b) /\ b \in DOMAIN snapshots) =>
                /\ op'.case \notin {"entry", "entry_failed"}
                /\ b \in DOMAIN snapshots' => snapshots'[b] = snapshots[b]]_vars

\* An evaluation inside the window found a snapshot whose rows differ from
\* the states of the store, and left it.
C12_Witness ==
    /\ op.name = "reevaluate_building_state"
    /\ op.case = "active"
    /\ op.building \in DOMAIN snapshots
    /\ \E r \in SnapshotRows(snapshots[op.building]) : r.state # store[r.id]

\* C13: an evaluation inside the window with a snapshot, or outside the
\* window without one, issues no bulk write and leaves the store and the
\* snapshots as they are.
C13_SteadyNoOp ==
    [][\A b \in Buildings :
        (/\ EvaluatedStep(b)
         /\ \/ InsideWindow(b) /\ b \in DOMAIN snapshots
            \/ OutsideWindow(b) /\ b \notin DOMAIN snapshots) =>
            /\ op'.case \in {"active", "steady"}
            /\ store' = store
            /\ snapshots' = snapshots
            /\ bulk_writes' = <<>>]_vars

\* An evaluation outside the window found no snapshot for a building that
\* has triggers and a trigger that an override would change.
C13_Witness ==
    /\ op.name = "reevaluate_building_state"
    /\ op.case = "steady"
    /\ OutsideWindow(op.building)
    /\ op.building \notin DOMAIN snapshots
    /\ \E t \in TriggersOf(op.building) : store[t] # OverrideFor(op.building, t)

\* C14: when the write-back of a window exit fails, the snapshot is still
\* there after the evaluation.
C14_SnapshotKeptOnFailure ==
    [][\A b \in Buildings :
        (/\ EvaluatedStep(b)
         /\ op'.case = "exit"
         /\ bulk_writes' # <<>>
         /\ ~bulk_writes'[1].success) =>
            /\ b \in DOMAIN snapshots'
            /\ snapshots'[b] = snapshots[b]]_vars

\* Membership of now in the half-open interval [start_time, end_time).
InHalfOpen(start_time, end_time, now) ==
    IF start_time <= end_time
    THEN start_time <= now /\ now < end_time
    ELSE now >= start_time \/ now < end_time

\* C15: for a schedule with both times, is_time_between is membership of
\* the current time in [start_time, end_time); it is false at end_time.
C15_HalfOpen ==
    \A b \in DOMAIN schedule :
        schedule[b].end_time # <<>> =>
            (is_time_between(schedule[b].start_time, schedule[b].end_time, clock)
                <=> InHalfOpen(ParseTime(schedule[b].start_time),
                               ParseTime(schedule[b].end_time[1]), clock))

C17_OncePerMinute ==
    [][(pc = "idle" /\ pc' = "phase2") => ~minute_checked]_vars

\* A tick has run its check, the cycle is over and the clock still shows
\* the minute of the check.
C17_Witness ==
    /\ pc = "idle"
    /\ minute_checked
    /\ next_run < every(1)

\* C18: a cycle in which an error was raised ends like any other, the loop
\* is armed with the full period after every cycle, and cycles are started
\* again and again.
C18_LoopNeverDies ==
    /\ [][pc = "phase2" /\ pc' # "phase2" => pc' = "done"]_vars
    /\ [][pc = "done" /\ pc' # "done" => pc' = "idle" /\ next_run' = every(1)]_vars
    /\ []<>(pc = "phase2")
    /\ []<>(pc = "idle")

\* A cycle in which a fetch raised has come to its end.
C18_Witness ==
    /\ pc = "done"
    /\ \E e \in Entries : e.outcome = "raised"

\* ------------------------------------------------------ the two threads
\* The building the loop of the scheduler thread is at.
LoopAt(b) ==
    /\ pc = "loop"
    /\ loop[1].live_states # <<>>
    /\ ~loop[1].acc.raised
    /\ Head(loop[1].live_states)[1] = b

\* A manual re-evaluation of b has decided to capture or to revert and has
\* not done it yet.
ManualAt(b) == manual # <<>> /\ manual[1].building = b

\* C19: the scheduler thread's handling of a building and a manual
\* re-evaluation of the same building are never in flight together.
C19_Serialised ==
    \A b \in Buildings : ~(LoopAt(b) /\ ManualAt(b))

\* C20: a cycle starts only when the scheduler thread is idle and no loop
\* is in flight; inside a cycle every step of the loop evaluates the one
\* building the loop is at and appends at most one bulk write, for that
\* building, to the writes of the buildings evaluated before.
C20_SingleThreaded ==
    /\ [][(pc # "phase2" /\ pc' = "phase2") => (pc = "idle" /\ loop = <<>>)]_vars
    /\ [][(pc = "loop" /\ pc' = "loop" /\ loop' # loop) =>
            LET b == Head(loop[1].live_states)[1]
                before == loop[1].acc
                after == loop'[1].acc
            IN /\ loop'[1].live_states = Tail(loop[1].live_states)
               /\ Len(after.handled) = Len(before.handled) + 1
               /\ SubSeq(after.handled, 1, Len(before.handled)) = before.handled
               /\ after.handled[Len(after.handled)].building = b
               /\ \/ after.bulk_writes = before.bulk_writes
                  \/ /\ Len(after.bulk_writes) = Len(before.bulk_writes) + 1
                     /\ SubSeq(after.bulk_writes, 1, Len(before.bulk_writes)) = before.bulk_writes
                     /\ after.bulk_writes[Len(after.bulk_writes)].building = b
               /\ \A i \in DOMAIN before.bulk_writes : before.bulk_writes[i].building # b]_vars

\* The loop has evaluated a building with a bulk write and is at the next
\* building.
C20_Witness ==
    /\ pc = "loop"
    /\ loop[1].acc.bulk_writes # <<>>
    /\ loop[1].live_states # <<>>
    /\ ~loop[1].acc.raised

\* ------------------------------------------------- the cycle and the window
\* C21: with the poll loop alone, a scheduled building that is inside its
\* window eventually holds a snapshot, and a building that holds a snapshot
\* while the time is outside its window eventually loses it or is inside
\* its window again.
C21_ScheduleDriven ==
    /\ \A b \in Buildings : InsideWindow(b) ~> snapshot_exists(snapshots, b)
    /\ \A b \in Buildings :
        (snapshot_exists(snapshots, b) /\ OutsideWindow(b))
            ~> (~snapshot_exists(snapshots, b) \/ InsideWindow(b))

HasMarker(t) == \E i \in 1..(Len(t) - 1) : t[i] = "A" /\ t[i + 1] = "2"

\* The last row of rows that names building b.
LastRowOf(rows, b) ==
    rows[CHOOSE i \in DOMAIN rows :
            /\ rows[i].building_id = b
            /\ \A j \in DOMAIN rows : rows[j].building_id = b => j <= i]

\* C23: in the map the reader returns, a building is not armed exactly when
\* the text of its row contains the marker AreaArmingStates.2; a NULL, empty
\* or any other text gives armed. Buildings without a row are not in the map.
C23_Classification ==
    (panel_read # <<>> /\ panel_read[1].done) =>
        LET rows == panel_read[1].rows
            result == panel_read[1].result
        IN \A b \in Buildings :
            IF \E i \in DOMAIN rows : rows[i].building_id = b
            THEN LET txt == LastRowOf(rows, b).state_txt
                 IN \E i \in DOMAIN result :
                        /\ result[i][1] = b
                        /\ result[i][2] = ~(txt # <<>> /\ HasMarker(txt[1]))
            ELSE \A i \in DOMAIN result : result[i][1] # b

\* A read has returned: one building had a NULL text and is armed, the
\* other had the marker followed by more text and is not armed.
C23_Witness ==
    /\ panel_read # <<>>
    /\ panel_read[1].done
    /\ \E i, j \in DOMAIN panel_read[1].rows :
        /\ panel_read[1].rows[i].building_id # 0
        /\ panel_read[1].rows[i].state_txt = <<>>
        /\ panel_read[1].rows[j].state_txt = << <<"A", "2", "4">> >>
        /\ panel_read[1].rows[j].building_id
            \notin {0, panel_read[1].rows[i].building_id}
    /\ \E i, j \in DOMAIN panel_read[1].result :
        panel_read[1].result[i][2] /\ ~panel_read[1].result[j][2]

\* ------------------------------------------------------- the state cache
\* C24: a building that has a cache entry has one in every later state, and
\* no building is treated as never observed (the bootstrap branch) by a tick
\* after one that has already observed it.
C24_CacheOnlyGrows ==
    /\ [][DOMAIN panel_state_cache \subseteq DOMAIN panel_state_cache']_vars
    /\ [][HandlerStep =>
            \A e \in EntriesNext :
                e.outcome = "first_run" => e.building \notin DOMAIN last_seen]_vars

\* ----------------------------------------------------- the ignore registry
\* The ids that a list of target states sets to the state s.
IdsSetTo(target_states, s) ==
    {target_states[i].id : i \in {j \in DOMAIN target_states : target_states[j].state = s}}

\* C25: the bulk write of a transition names the registry rows that name
\* the building with ignore_on_disarm at the time of the tick, whatever
\* edits came before it; and the override of a window entry evaluated on
\* the registry as it is now sets exactly these rows' triggers of the
\* building to NonReactive.
C25_RegistryReadFresh ==
    /\ [][HandlerStep =>
            \A i \in DOMAIN bulk_writes' :
                TargetIds(bulk_writes'[i]) = DisarmIgnored(bulk_writes'[i].building)]_vars
    /\ [](\A b \in Buildings :
            LET r == take_snapshot_and_apply_schedule(store, snapshots, ignored, b, FALSE, TRUE)
            IN \A i \in DOMAIN r.bulk_writes :
                IdsSetTo(r.bulk_writes[i].target_states, NonReactive)
                    = DisarmIgnored(b) \cap TriggersOf(b))

\* A transition of a building has written the row that was added to the
\* registry after start-up, while the building holds a trigger without a row.
C25_Witness ==
    /\ pc = "done"
    /\ \E b \in Buildings :
        /\ Handled(b, "armed") \/ Handled(b, "disarmed")
        /\ \E i \in WritesOf(b) :
            /\ TargetIds(bulk_writes[i]) # {}
            /\ TargetIds(bulk_writes[i]) = DOMAIN ignored
        /\ TriggersOf(b) \ DOMAIN ignored # {}

\* ------------------------------------------------- the phases of a cycle
\* C26: the loop of the transition handler, in which its writes are issued,
\* runs only after check_and_manage_scheduled_states has returned in the
\* same cycle, and no alert is decided or delivered while it runs or after
\* it in that cycle.
C26_PhasesInOrder ==
    /\ []((pc = "loop" \/ loop # <<>>) =>
            /\ pc = "loop"
            /\ loop # <<>>
            /\ op.name = "check_and_manage_scheduled_states")
    /\ [][(pc \in {"loop", "done"} /\ pc' # "idle")
            => (alerts' = alerts /\ sends' = sends)]_vars

\* The handler has issued a write in a cycle whose notifier check sent an
\* alert.
C26_Witness ==
    /\ pc = "loop"
    /\ alerts # <<>>
    /\ \E i \in DOMAIN sends : sends[i].attempts = 1
    /\ loop[1].acc.bulk_writes # <<>>

\* ------------------------------------------------- the missing schedule
\* C27: for a building without a schedule the notifier calls no delivery,
\* whatever the panel states are, and an evaluation of its window, as one
\* call or in the steps of a request thread, decides nothing: it issues no
\* write and leaves the trigger store and the snapshots as they are.
C27_NoScheduleNoAction ==
    /\ [][(pc = "idle" /\ pc' = "phase2") =>
            /\ \A i \in DOMAIN alerts' : alerts'[i][1] \in DOMAIN schedule
            /\ \A i \in DOMAIN sends' : sends'[i].building \in DOMAIN schedule]_vars
    /\ [][\A b \in Buildings \ DOMAIN schedule :
            ManualBegin(b) =>
                /\ manual' = <<>>
                /\ store' = store
                /\ snapshots' = snapshots]_vars
    /\ [](\A b \in Buildings \ DOMAIN schedule :
            \A fetch_raises \in BOOLEAN, db_ok \in BOOLEAN :
                LET r == evaluate_building_state(store, snapshots, schedule, ignored, b,
                                                 clock, fetch_raises, db_ok)
                IN /\ r.case = "no_schedule"
                   /\ r.store = store
                   /\ r.snapshots = snapshots
                   /\ r.bulk_writes = <<>>)

\* The notifier has sent the alert of the scheduled building while another
\* building, which holds a trigger, has no schedule.
C27_Witness ==
    /\ pc = "phase2"
    /\ alerts # <<>>
    /\ \E b \in Buildings \ DOMAIN schedule :
        /\ TriggersOf(b) # {}
        /\ \A i \in DOMAIN alerts : alerts[i][1] # b

\* ------------------------------------------------------ the delivery
\* C28: in one cycle send_disarmed_axe_message is called once for each
\* building that gets an alert, and each call makes at most one attempt to
\* connect and send, whether the attempt goes through or not.
C28_NoRetry ==
    /\ Len(sends) = Len(alerts)
    /\ \A i \in DOMAIN sends :
        /\ sends[i].building = alerts[i][1]
        /\ sends[i].attempts <= 1
        /\ sends[i].delivered => sends[i].attempts = 1
    /\ \A i, j \in DOMAIN sends : i # j => sends[i].building # sends[j].building

\* The one attempt of a cycle for a building has failed, and the cycle has
\* gone on to its second phase.
C28_Witness ==
    /\ pc = "done"
    /\ \E i \in DOMAIN sends : sends[i].attempts = 1 /\ ~sends[i].delivered

\* ------------------------------------------------------ the hung dependency
\* C29: a cycle that is due or in its second phase comes to its end and the
\* scheduler thread is idle again, also when a query gets no answer.
C29_CycleTerminates ==
    (pc = "phase2" \/ (pc = "idle" /\ next_run = 0)) ~> (pc = "idle" /\ next_run > 0)

\* ------------------------------------------------- the handler and the window
\* C30: a cycle of the transition handler leaves every snapshot as it is,
\* and the evaluation at window exit leaves every snapshotted trigger in its
\* snapshotted state, whatever the handler wrote while the snapshot existed.
C30_ReconcilerUnaffected ==
    /\ [][HandlerStep => snapshots' = snapshots]_vars
    /\ [][\A b \in Buildings :
            (EvaluatedStep(b) /\ op'.case = "exit") =>
                \A r \in SnapshotRows(snapshots[b]) : store'[r.id] = r.state]_vars

\* ------------------------------------------------- the written triggers
\* C31: every bulk write of the transition handler is for a building whose
\* transition was detected, names exactly the registry rows of that building
\* with ignore_on_disarm, and gives them all Reactive on arm and NonReactive
\* on disarm; a trigger whose state the handler changes is named by a write
\* that went through and takes the state of that write.
C31_OnlySelectedWritten ==
    [][HandlerStep =>
        /\ \A i \in DOMAIN bulk_writes' :
            LET w == bulk_writes'[i]
            IN /\ TargetIds(w) = DisarmIgnored(w.building)
               /\ \E e \in EntriesNext :
                    /\ e.building = w.building
                    /\ e.outcome \in {"armed", "disarmed"}
                    /\ \A j \in DOMAIN w.target_states :
                        w.target_states[j].state
                            = (IF e.is_armed THEN Reactive ELSE NonReactive)
        /\ \A t \in Triggers :
            store'[t] # store[t] =>
                \E i \in DOMAIN bulk_writes' :
                    /\ bulk_writes'[i].success
                    /\ \E j \in DOMAIN bulk_writes'[i].target_states :
                        /\ bulk_writes'[i].target_states[j].id = t
                        /\ bulk_writes'[i].target_states[j].state = store'[t]]_vars

\* A disarm transition has set the selected trigger of a building to
\* NonReactive and left a Reactive trigger of the building, which has a row
\* without ignore_on_disarm or no row, as it was.
C31_Witness ==
    /\ pc = "done"
    /\ \E b \in Buildings :
        /\ Handled(b, "disarmed")
        /\ \E i \in WritesOf(b) :
            /\ bulk_writes[i].success
            /\ \E t \in TargetIds(bulk_writes[i]) \cap TriggersOf(b) : store[t] = NonReactive
        /\ \E t \in TriggersOf(b) \ DisarmIgnored(b) : store[t] = Reactive

\* ------------------------------------------------- arming after a disarm
\* C32: after an arm transition of a building whose writes went through,
\* every trigger of the building is Reactive: every trigger that a disarm
\* transition had set NonReactive has been set back, also when its row was
\* removed or its ignore_on_disarm flag cleared since the disarm.
C32_RearmRestores ==
    [][HandlerStep =>
        \A b \in Buildings :
            (HandledNext(b, "armed") /\ WritesOkNext(b)) =>
                \A t \in TriggersOf(b) : store'[t] = Reactive]_vars

\* ------------------------------------------------- the owner of a trigger
\* C33: every bulk write of a transition of a building names only triggers
\* that the external store lists for that building, and no trigger of
\* another building changes its state through it.
C33_OnlyOwnTriggers ==
    [][HandlerStep =>
        \A i \in DOMAIN bulk_writes' :
            TargetIds(bulk_writes'[i]) \subseteq TriggersOf(bulk_writes'[i].building)]_vars

\* ------------------------------------------------- the failed override
\* C35: an evaluation at window entry whose override write fails leaves no
\* snapshot for the building, so that a snapshot inside the window stands for
\* an override that was applied.
C35_SnapshotMeansApplied ==
    [][\A b \in Buildings :
        (/\ EvaluatedStep(b)
         /\ op'.case = "entry"
         /\ \E i \in DOMAIN bulk_writes' : ~bulk_writes'[i].success)
        => ~snapshot_exists(snapshots', b)]_vars

NotAt(st, w) ==
    {w.target_states[j].id : j \in {k \in DOMAIN w.target_states :
                                        st[w.target_states[k].id] # w.target_states[k].state}}

\* C37: an evaluation issues at most one bulk write; when the write returns
\* false the store is as it was before, when it returns true every listed
\* trigger has its target state and no other trigger has changed.
C37_AllOrNothing ==
    [][\A b \in Buildings :
        (EvaluatedStep(b) /\ bulk_writes' # <<>>) =>
            LET w == bulk_writes'[1]
            IN /\ Len(bulk_writes') = 1
               /\ ~w.success => store' = store
               /\ w.success =>
                    /\ NotAt(store', w) = {}
                    /\ \A t \in Triggers \ TargetIds(w) : store'[t] = store[t]]_vars

\* Both outcomes of a bulk write that would change the store: a window entry
\* whose override failed has left a trigger in a state other than its target.
C37_Witness ==
    /\ op.name = "reevaluate_building_state"
    /\ op.case = "entry"
    /\ Len(bulk_writes) = 1
    /\ ~bulk_writes[1].success
    /\ Len(bulk_writes[1].target_states) = 2
    /\ NotAt(store, bulk_writes[1]) # {}

\* ------------------------------------------------- the manual evaluation
\* What one run of the window reconciler can make of the state for b.
OneRun(b) ==
    {evaluate_building_state(store, snapshots, schedule, ignored, b, clock, f, d) :
        f \in BOOLEAN, d \in BOOLEAN}

\* C40: a manual re-evaluation of a building leaves panel_state_cache as it
\* is; when the panel flag is truthy it issues no write and leaves store and
\* snapshots as they are; otherwise its effect on store and snapshots and
\* its writes are those of one run of the window reconciler for the building.
C40_ManualEvaluation ==
    /\ [](\A b \in Buildings, f \in BOOLEAN, d \in BOOLEAN :
            LET r == reevaluate_building_state(store, snapshots, schedule, ignored, b,
                                               clock, TRUE, f, d)
            IN /\ r.bulk_writes = <<>>
               /\ r.store = store
               /\ r.snapshots = snapshots)
    /\ [][\A b \in Buildings :
        Reevaluate(b) =>
            /\ panel_state_cache' = panel_state_cache
            /\ op'.building = b
            /\ op'.case = "skipped" =>
                /\ bulk_writes' = <<>>
                /\ store' = store
                /\ snapshots' = snapshots
            /\ op'.case # "skipped" =>
                \E r \in OneRun(b) :
                    /\ r.case = op'.case
                    /\ r.store = store'
                    /\ r.snapshots = snapshots'
                    /\ r.bulk_writes = bulk_writes']_vars

\* A re-evaluation was skipped for the panel flag where the reconciler would
\* have acted: the building is inside its window without a snapshot, or
\* outside it with one.
C40_Witness ==
    /\ op.name = "reevaluate_building_state"
    /\ op.case = "skipped"
    /\ \/ InsideWindow(op.building) /\ ~snapshot_exists(snapshots, op.building)
       \/ OutsideWindow(op.building) /\ snapshot_exists(snapshots, op.building)
    /\ panel_state_cache = <<>>

\* ------------------------------------------------- the minute of the alert
\* C38: once the job has run, no minute that is the start_time of a
\* scheduled building passes without a notifier check made in it, so that a
\* panel disarmed during that whole minute is seen disarmed by a check.
C38_NoMinuteSkipped ==
    [][(/\ FormatMinute(clock') # FormatMinute(clock)
        /\ has_run
        /\ \E b \in DOMAIN schedule : schedule[b].start_time = FormatMinute(clock))
       => minute_checked]_vars

\* ------------------------------------------------- the other alerts
\* C39: in the first phase of a cycle send_disarmed_axe_message is called for
\* every building that has a panel row, is seen disarmed and has the minute
\* of the clock as its start_time, whether or not the name of another
\* building was found and whether or not the alert of another building was
\* delivered.
C39_OthersStillAlerted ==
    [][\A live_states \in LiveStates :
        RunPendingOf(live_states) =>
            \A i \in DOMAIN live_states :
                LET b == live_states[i][1]
                IN (/\ b \in DOMAIN schedule
                    /\ schedule[b].start_time = FormatMinute(clock)
                    /\ ~live_states[i][2])
                   => \E j \in DOMAIN sends' : sends'[j].building = b]_vars

\* Two buildings qualified in one cycle: the alert of the first was not
\* delivered, and the attempt for the second was made.
C39_Witness ==
    /\ pc = "phase2"
    /\ Len(sends) = 2
    /\ ~sends[1].delivered
    /\ sends[2].attempts = 1
    /\ sends[1].building # sends[2].building

====
